---- MODULE Spec2Model ----
(***************************************************************************)
(* The orchids command-line database agent: the operation executor         *)
(* (cli/src/agent/tools.ts), the decision schema (cli/src/agent/type.ts),  *)
(* the step engine DatabaseAgent.runNextStep / spawnAgent                  *)
(* (cli/src/agent/index.ts), the terminal (cli/src/terminal.ts) and the    *)
(* filesystem they act on.                                                 *)
(*                                                                         *)
(* A path string is a record [abs, segs]: whether it starts with "/" and   *)
(* its "/"-separated segments; the empty string is [abs |-> FALSE,         *)
(* segs |-> <<>>].  A filesystem location is the sequence of names from    *)
(* the filesystem root.                                                    *)
(***************************************************************************)
EXTENDS Integers, Sequences, FiniteSets, TLC

VARIABLES
    cwd,         \* process.cwd(): fixed when the process starts
    apiKey,      \* whether GOOGLE_GENERATIVE_AI_API_KEY is set in the environment
    fs,          \* the filesystem: location -> node
    messages,    \* DatabaseAgent.messages, the Conversation
    stepCount,   \* DatabaseAgent.stepCount
    iterations,  \* spawnAgent's local `iterations`
    retryCount,  \* the retryCount argument of the runNextStep call in progress
    pc,          \* where the run is: see the actions
    ret,         \* what the last top-level runNextStep call returned to spawnAgent
    lastError,   \* the error message caught by the last catch of runNextStep
    console,     \* the run's narration: the kinds of lines printed
    calls,       \* the executor functions invoked by the latest step / operation
    result,      \* the OperationResult of the latest step / operation
    opCount,     \* how many executor functions have been invoked so far
    before,      \* `calls` and `result` as they were before the latest step / operation
    tasks,       \* the commands Terminal.start has handed to spawnAgent, in order
    signal,      \* how the latest `await spawnAgent(command)` of Terminal.start ended
    output,      \* what the latest generateObject call received from the model, if anything
    delay,       \* the wait that elapsed last, "none" once a model invocation began after it
    attempts     \* the generateObject calls made so far by the step in progress

vars == <<cwd, apiKey, fs, messages, stepCount, iterations, retryCount, pc, ret,
          lastError, console, calls, result, opCount, before, tasks, signal, output, delay, attempts>>

Undefined == "undefined"
Null == "null"

(***************************************************************************)
(* Bounds of the model.                                                    *)
(***************************************************************************)
\* SpecTools applies at most this many executor functions in a row.
MaxOps == 2
\* Spec explores the last MaxSteps iterations of a run in full detail.
MaxSteps == 2
\* SpecSession lets the terminal hand at most this many tasks to spawnAgent.
MaxTasks == 2

(***************************************************************************)
(* Paths (node:path).                                                      *)
(***************************************************************************)
Rel(segs) == [abs |-> FALSE, segs |-> segs]
Abs(segs) == [abs |-> TRUE, segs |-> segs]

\* A JavaScript string is falsy exactly when it is empty.
IsEmptyString(p) == p.abs = FALSE /\ p.segs = <<>>

isAbsolute(p) == p.abs

DropLast(s) == SubSeq(s, 1, Len(s) - 1)

\* Walk `segs` from location `acc`: "." stays, ".." goes up (the root is its own parent).
RECURSIVE NormFrom(_, _)
NormFrom(acc, segs) ==
    IF segs = <<>> THEN acc
    ELSE LET s == Head(segs) IN
         NormFrom(IF s = "." THEN acc
                  ELSE IF s = ".." THEN (IF acc = <<>> THEN acc ELSE DropLast(acc))
                  ELSE Append(acc, s),
                  Tail(segs))

\* path.resolve(base, p) for an absolute location `base`.
pathResolve(base, p) == IF p.abs THEN NormFrom(<<>>, p.segs) ELSE NormFrom(base, p.segs)

\* Normalisation of a relative path: "." dropped, "x/.." dropped, leading ".." kept.
RECURSIVE NormRel(_, _)
NormRel(acc, segs) ==
    IF segs = <<>> THEN acc
    ELSE LET s == Head(segs) IN
         NormRel(IF s = "." THEN acc
                 ELSE IF s = ".." /\ acc # <<>> /\ acc[Len(acc)] # ".." THEN DropLast(acc)
                 ELSE Append(acc, s),
                 Tail(segs))

\* path.join(p, name)
pathJoin(p, name) ==
    IF p.abs THEN Abs(NormFrom(<<>>, Append(p.segs, name)))
    ELSE Rel(NormRel(<<>>, Append(p.segs, name)))

basename(loc) == IF loc = <<>> THEN "" ELSE loc[Len(loc)]
dirname(loc) == IF loc = <<>> THEN <<>> ELSE DropLast(loc)

IsPrefix(a, b) == Len(a) <= Len(b) /\ SubSeq(b, 1, Len(a)) = a

\* path.extname of a file name, lower-cased, on the names of the model.
extname(name) ==
    CASE name \in {"app.ts", "APP.TS"} -> ".ts"
      [] name = "pkg.js" -> ".js"
      [] name \in {"a.txt", "b.txt", "ghost.txt", "todo.txt", "x.txt"} -> ".txt"
      [] OTHER -> ""

\* const PROJECT_ROOT = path.resolve(cwd, path.basename(cwd) === 'cli' ? '../' : '.')
PROJECT_ROOT == pathResolve(cwd, IF basename(cwd) = "cli" THEN Rel(<<"..">>) ELSE Rel(<<".">>))

resolvePath(filePath) ==
    IF isAbsolute(filePath) THEN filePath
    ELSE Abs(pathResolve(PROJECT_ROOT, filePath))

\* The location the operating system gives a path string handed to an fs call:
\* a relative string is taken from the process working directory.
OsLocation(p) == pathResolve(cwd, p)

(***************************************************************************)
(* The inputs of the model.                                                *)
(***************************************************************************)
ProjectDir == <<"proj">>
CliDir == <<"proj", "cli">>
WorkingDirs == {ProjectDir, CliDir}

P_empty == Rel(<<>>)
P_dot == Rel(<<".">>)
P_a == Rel(<<"a.txt">>)
P_b == Rel(<<"b.txt">>)
P_ghost == Rel(<<"ghost.txt">>)
P_todo == Rel(<<"notes", "todo.txt">>)
P_notes == Rel(<<"notes">>)
P_up == Rel(<<"..", "x.txt">>)
P_app == Rel(<<"app.ts">>)
P_absA == Abs(<<"proj", "a.txt">>)
P_under == Rel(<<"a.txt", "z">>)
P_all == Rel(<<"**", "*">>)
P_dep == Rel(<<"node_modules", "pkg.js">>)

ToolPaths == {P_empty, P_dot, P_a, P_b, P_ghost, P_todo, P_notes, P_up, P_app, P_absA, P_under}
Contents == {"hello", "bye"}
Commands == {"ls"}

Dir == [kind |-> "dir", content |-> ""]
Absent == [kind |-> "absent", content |-> ""]
File(c) == [kind |-> "file", content |-> c]

\* The filesystem when the process starts.
InitialFiles ==
    (<<>> :> Dir) @@ (ProjectDir :> Dir) @@ (CliDir :> Dir)
    @@ (<<"proj", "a.txt">> :> File("old"))
    @@ (<<"proj", "cli", "b.txt">> :> File("cliB"))
    @@ (<<"proj", "node_modules">> :> Dir)
    @@ (<<"proj", "node_modules", "pkg.js">> :> File("dep"))
    @@ (<<"proj", ".git">> :> Dir)
    @@ (<<"proj", ".git", "config">> :> File("git"))
    @@ (<<"proj", ".next">> :> Dir)
    @@ (<<"proj", ".next", "cache">> :> File("build"))

Prefixes(loc) == {SubSeq(loc, 1, n) : n \in 0..Len(loc)}

\* Every location an operation of the model can name.
Universe ==
    UNION {Prefixes(l) : l \in
        DOMAIN InitialFiles
        \cup {pathResolve(b, p) : b \in WorkingDirs, p \in ToolPaths}}

InitFs == [l \in Universe |-> IF l \in DOMAIN InitialFiles THEN InitialFiles[l] ELSE Absent]

(***************************************************************************)
(* node:fs/promises on the modelled filesystem.  Each call yields          *)
(* [ok, fs, value]: ok = FALSE is a rejected promise whose message is      *)
(* `value`.                                                                *)
(***************************************************************************)
Kind(f, loc) == IF loc \in Universe THEN f[loc].kind ELSE "absent"

FileAbove(f, loc) == \E n \in 0..(Len(loc) - 1) : Kind(f, SubSeq(loc, 1, n)) = "file"

MissingCode(f, loc) == IF FileAbove(f, loc) THEN "ENOTDIR" ELSE "ENOENT"

Threw(f, msg) == [ok |-> FALSE, fs |-> f, value |-> msg]
Gave(f, v) == [ok |-> TRUE, fs |-> f, value |-> v]

\* fs.access(p).then(() => true).catch(() => false), p the string as given
fsAccess(f, p) == ~IsEmptyString(p) /\ Kind(f, OsLocation(p)) # "absent"

\* fs.readFile(abs, 'utf-8')
fsReadFile(f, abs) ==
    LET loc == OsLocation(abs) IN
    CASE Kind(f, loc) = "file" -> Gave(f, f[loc].content)
      [] Kind(f, loc) = "dir" -> Threw(f, "EISDIR")
      [] OTHER -> Threw(f, MissingCode(f, loc))

\* fs.mkdir(abs, { recursive: true })
fsMkdir(f, abs) ==
    LET loc == OsLocation(abs) IN
    IF Kind(f, loc) = "file" THEN Threw(f, "EEXIST")
    ELSE IF FileAbove(f, loc) THEN Threw(f, "ENOTDIR")
    ELSE Gave([l \in Universe |-> IF l \in Prefixes(loc) THEN Dir ELSE f[l]], "")

\* fs.writeFile(abs, content, 'utf-8')
fsWriteFile(f, abs, content) ==
    LET loc == OsLocation(abs) IN
    CASE Kind(f, loc) = "dir" -> Threw(f, "EISDIR")
      [] Kind(f, dirname(loc)) # "dir" -> Threw(f, MissingCode(f, loc))
      [] OTHER -> Gave([f EXCEPT ![loc] = File(content)], "")

\* fs.unlink(abs)
fsUnlink(f, abs) ==
    LET loc == OsLocation(abs) IN
    CASE Kind(f, loc) = "file" -> Gave([f EXCEPT ![loc] = Absent], "")
      [] Kind(f, loc) = "dir" -> Threw(f, "EISDIR")
      [] OTHER -> Threw(f, MissingCode(f, loc))

Children(f, loc) == {l \in Universe : Len(l) = Len(loc) + 1 /\ IsPrefix(loc, l) /\ Kind(f, l) # "absent"}

\* fs.readdir(abs, { withFileTypes: true }): the entries as [name, isDirectory]
fsReaddir(f, abs) ==
    LET loc == OsLocation(abs) IN
    CASE Kind(f, loc) = "dir" ->
            Gave(f, {[name |-> basename(l), isDirectory |-> Kind(f, l) = "dir"] : l \in Children(f, loc)})
      [] Kind(f, loc) = "file" -> Threw(f, "ENOTDIR")
      [] OTHER -> Threw(f, MissingCode(f, loc))

(***************************************************************************)
(* The operation executor (tools.ts).  Each primitive yields               *)
(* [fs, result]; an OperationResult holds exactly the fields the code      *)
(* sets.                                                                   *)
(***************************************************************************)
Has(r, k) == k \in DOMAIN r

Outcome(f, r) == [fs |-> f, result |-> r]

TypeOf(isDir) == IF isDir THEN "directory" ELSE "file"

\* A lint pass that takes every file.
shouldLintFile_all(filePath) == TRUE

shouldLintFile(filePath) ==
    extname(basename(filePath.segs)) \in {".js", ".jsx", ".ts", ".tsx"}

\* What `npx next lint --file <f> --fix` can do: pass or fail, and leave the
\* file as written or rewrite it with its fixes.
LintRuns == [passed : BOOLEAN, fixed : BOOLEAN]
NoLint == [passed |-> TRUE, fixed |-> FALSE]
AutoFixed == "autofixed"

\* The lint run that lintFile starts for a path, if it starts one.
LintedBy(filePath, lint) == IF shouldLintFile(filePath) THEN [lint |-> lint] ELSE <<>>

\* lintFile: [fs, error], error = Null when there is none
lintFile(f, filePath, lint) ==
    IF ~shouldLintFile(filePath) THEN [fs |-> f, error |-> Null]
    ELSE LET loc == OsLocation(resolvePath(filePath))
             g == IF lint.fixed /\ Kind(f, loc) = "file"
                  THEN [f EXCEPT ![loc] = File(AutoFixed)] ELSE f
         IN [fs |-> g, error |-> IF lint.passed THEN Null ELSE "lint error"]

readFile(f, filePath) ==
    IF ~fsAccess(f, filePath)
    THEN Outcome(f, [success |-> FALSE, path |-> filePath, error |-> "File not found"])
    ELSE LET rd == fsReadFile(f, resolvePath(filePath)) IN
         IF rd.ok
         THEN Outcome(f, [success |-> TRUE, fileContent |-> rd.value, path |-> filePath])
         ELSE Outcome(f, [success |-> FALSE, path |-> filePath, error |-> rd.value])

\* writeFile that opens the file with the 'wx' flag: an existing file is
\* left as it is.
writeFile_keepsExisting(f, filePath, content, lint) ==
    LET absolutePath == resolvePath(filePath)
        mk == fsMkdir(f, Abs(dirname(OsLocation(absolutePath))))
        wr == IF Kind(mk.fs, OsLocation(absolutePath)) = "file"
              THEN Gave(mk.fs, "") ELSE fsWriteFile(mk.fs, absolutePath, content)
    IN  IF ~mk.ok
        THEN Outcome(f, [success |-> FALSE, path |-> filePath, error |-> mk.value])
        ELSE IF ~wr.ok
        THEN Outcome(mk.fs, [success |-> FALSE, path |-> filePath, error |-> wr.value])
        ELSE Outcome(wr.fs, [success |-> TRUE, path |-> filePath])

\* writeFile: [fs, result], and the lint run when lintFile started one
writeFile(f, filePath, content, lint) ==
    LET absolutePath == resolvePath(filePath)
        mk == fsMkdir(f, Abs(dirname(OsLocation(absolutePath))))
        wr == fsWriteFile(mk.fs, absolutePath, content)
        ln == lintFile(wr.fs, filePath, lint)
    IN  IF ~mk.ok
        THEN Outcome(f, [success |-> FALSE, path |-> filePath, error |-> mk.value])
        ELSE IF ~wr.ok
        THEN Outcome(mk.fs, [success |-> FALSE, path |-> filePath, error |-> wr.value])
        ELSE IF ln.error # Null
        THEN LintedBy(filePath, lint) @@ Outcome(ln.fs, [success |-> FALSE, path |-> filePath, error |-> ln.error])
        ELSE LintedBy(filePath, lint) @@ Outcome(ln.fs, [success |-> TRUE, path |-> filePath])

deleteFile(f, filePath) ==
    IF ~fsAccess(f, filePath)
    THEN Outcome(f, [success |-> FALSE, path |-> filePath, error |-> "File not found"])
    ELSE LET un == fsUnlink(f, resolvePath(filePath)) IN
         IF un.ok
         THEN Outcome(un.fs, [success |-> TRUE, path |-> filePath])
         ELSE Outcome(f, [success |-> FALSE, path |-> filePath, error |-> un.value])

readDirectory(f, dirPath) ==
    IF ~fsAccess(f, dirPath)
    THEN Outcome(f, [success |-> FALSE, path |-> dirPath, error |-> "Directory not found"])
    ELSE LET rd == fsReaddir(f, resolvePath(IF IsEmptyString(dirPath) THEN P_dot ELSE dirPath)) IN
         IF rd.ok
         THEN Outcome(f, [success |-> TRUE, path |-> dirPath,
                          directoryList |-> {[path |-> pathJoin(dirPath, e.name),
                                              type |-> TypeOf(e.isDirectory)] : e \in rd.value}])
         ELSE Outcome(f, [success |-> FALSE, path |-> dirPath, error |-> rd.value])

\* createDirectory with fs.mkdir(absolutePath), not recursive: an existing
\* directory is an error.
createDirectory_notRecursive(f, dirPath) ==
    LET mk == fsMkdir(f, resolvePath(dirPath)) IN
    IF Kind(f, OsLocation(resolvePath(dirPath))) # "absent"
    THEN Outcome(f, [success |-> FALSE, path |-> dirPath, error |-> "EEXIST"])
    ELSE IF mk.ok
    THEN Outcome(mk.fs, [success |-> TRUE, path |-> dirPath])
    ELSE Outcome(f, [success |-> FALSE, path |-> dirPath, error |-> mk.value])

createDirectory(f, dirPath) ==
    LET mk == fsMkdir(f, resolvePath(dirPath)) IN
    IF mk.ok
    THEN Outcome(mk.fs, [success |-> TRUE, path |-> dirPath])
    ELSE Outcome(f, [success |-> FALSE, path |-> dirPath, error |-> mk.value])

\* What the shell can make of a command: its exit, and what it wrote before.
ExecRuns == [exit : {"zero", "nonzero", "timeout"}, stdout : {"", "out"}, stderr : {"", "err"}]

NoExec == [exit |-> "zero", stdout |-> "", stderr |-> ""]

\* runCommand(command, cwd): the commands of the model leave the filesystem
\* alone.  The outcome also names the shell's run, for the record of the call.
runCommand(f, command, dir, exec) ==
    LET workingDir == IF ~IsEmptyString(dir) THEN OsLocation(resolvePath(dir)) ELSE PROJECT_ROOT IN
    [exec |-> exec] @@
    IF Kind(f, workingDir) # "dir"
    THEN Outcome(f, [success |-> FALSE, error |-> "spawn ENOENT", commandOutput |-> [stdout |-> "", warnings |-> ""], path |-> dir])
    ELSE IF exec.exit = "zero"
    THEN Outcome(f, [success |-> TRUE, commandOutput |-> [stdout |-> exec.stdout, warnings |-> exec.stderr], path |-> dir])
    ELSE Outcome(f, [success |-> FALSE,
                     error |-> IF exec.exit = "timeout" THEN "Command timed out" ELSE "Command failed",
                     commandOutput |-> [stdout |-> exec.stdout, warnings |-> ""], path |-> dir])

\* The ignore list of scanProject: a path below a directory whose name ends with
\* node_modules, cli, .next or .git (components/ui and components/blocks hold no
\* file of the model).
IgnoredDirName(name) == name \in {"node_modules", "cli", ".next", ".git"}
Ignored(rel) == \E i \in 1..(Len(rel) - 1) : IgnoredDirName(rel[i])

\* glob(pattern, { cwd: PROJECT_ROOT, dot: true }): "**/*" is every entry below
\* the root, any other pattern of the model names one path.
GlobMatches(f, pattern) ==
    LET below == {l \in Universe : Len(l) > Len(PROJECT_ROOT) /\ IsPrefix(PROJECT_ROOT, l)
                                   /\ Kind(f, l) # "absent"}
        one == pathResolve(PROJECT_ROOT, pattern)
    IN  IF pattern = P_all THEN below
        ELSE IF IsPrefix(PROJECT_ROOT, one) /\ Kind(f, one) # "absent" /\ ~pattern.abs THEN {one}
        ELSE {}

\* scanProject without the `ignore` option of its glob call.
scanProject_noIgnore(f, pattern) ==
    Outcome(f, [success |-> TRUE,
                directoryList |-> {[path |-> Rel(SubSeq(l, Len(PROJECT_ROOT) + 1, Len(l))),
                                    type |-> TypeOf(Kind(f, l) = "dir")] : l \in GlobMatches(f, pattern)},
                path |-> pattern])

scanProject(f, pattern) ==
    LET hits == {l \in GlobMatches(f, pattern) :
                    ~Ignored(SubSeq(l, Len(PROJECT_ROOT) + 1, Len(l)))} IN
    Outcome(f, [success |-> TRUE,
                directoryList |-> {[path |-> Rel(SubSeq(l, Len(PROJECT_ROOT) + 1, Len(l))),
                                    type |-> TypeOf(Kind(f, l) = "dir")] : l \in hits},
                path |-> pattern])

(***************************************************************************)
(* The decision protocol (type.ts).  A model output is a record holding    *)
(* the fields the model supplied; an optional field the model left out is  *)
(* not in its domain.                                                      *)
(***************************************************************************)
FileOperationEnum ==
    {"READ_FILE", "WRITE_FILE", "DELETE_FILE", "READ_DIRECTORY", "CREATE_DIRECTORY",
     "EXECUTE_COMMAND", "SCAN_PROJECT"}

\* A schema whose operation is any string or null instead of the enumeration.
AIResponseSchema_anyTag(raw) ==
    LET valid == /\ Has(raw, "success") /\ raw.success \in BOOLEAN
                 /\ Has(raw, "operation")
                 /\ Has(raw, "explanation")
    IN [ok |-> valid,
        object |-> IF Has(raw, "path") THEN raw ELSE raw @@ [path |-> P_dot]]

\* AIResponseSchema.parse: [ok, object]; path defaults to '.'
AIResponseSchema(raw) ==
    LET valid == /\ Has(raw, "success") /\ raw.success \in BOOLEAN
                 /\ Has(raw, "operation") /\ raw.operation \in FileOperationEnum \cup {Null}
                 /\ Has(raw, "explanation")
    IN [ok |-> valid,
        object |-> IF Has(raw, "path") THEN raw ELSE raw @@ [path |-> P_dot]]

\* JSON.stringify(value): the JSON text, which holds exactly the defined fields
JSONstringify(value) == [json |-> value]

\* A Result pushed under the assistant's role.
UserMessage_asAssistant(value) == [role |-> "assistant", content |-> [json |-> value]]

UserText(text) == [role |-> "user", content |-> [text |-> text]]
UserMessage(value) == [role |-> "user", content |-> JSONstringify(value)]
AssistantMessage(value) == [role |-> "assistant", content |-> JSONstringify(value)]

\* A test for an absent field alone: `s === undefined`.
Falsy_absentOnly(d, k) == ~Has(d, k)

\* !s for an optional string field: absent or empty
Falsy(d, k) == ~Has(d, k) \/ d[k] = ""

Call(tool, path, arg) == [tool |-> tool, path |-> path, arg |-> arg]

\* The record of a call: a runCommand's also holds what the shell did, a
\* writeFile's what its lint run did.
CallOf(tool, path, arg, out) ==
    CASE Has(out, "exec") -> Call(tool, path, arg) @@ [exec |-> out.exec]
      [] Has(out, "lint") -> Call(tool, path, arg) @@ [lint |-> out.lint]
      [] OTHER -> Call(tool, path, arg)

\* A case of the switch that calls its function a second time.
Ran_twice(tool, path, arg, out) ==
    [fs |-> out.fs, result |-> out.result,
     calls |-> <<CallOf(tool, path, arg, out), CallOf(tool, path, arg, out)>>]

Ran(tool, path, arg, out) == [fs |-> out.fs, result |-> out.result, calls |-> <<CallOf(tool, path, arg, out)>>]
\* A refusal that says no more than success: false.
Refused_noError(f, msg) == [fs |-> f, result |-> [success |-> FALSE], calls |-> <<>>]

Refused(f, msg) == [fs |-> f, result |-> [success |-> FALSE, error |-> msg], calls |-> <<>>]

\* executeOperation with `fileContent || ''` and `command || ''` in place of the
\* two payload checks.
executeOperation_defaultsPayload(f, response, lint, exec) ==
    LET operation == response.operation
        path == response.path
        command == IF Has(response, "command") THEN response.command ELSE ""
        fileContent == IF Has(response, "fileContent") THEN response.fileContent ELSE ""
    IN CASE operation = "EXECUTE_COMMAND" -> Ran("runCommand", path, command, runCommand(f, command, path, exec))
         [] operation = "READ_FILE" -> Ran("readFile", path, "", readFile(f, path))
         [] operation = "WRITE_FILE" -> Ran("writeFile", path, fileContent, writeFile(f, path, fileContent, lint))
         [] operation = "DELETE_FILE" -> Ran("deleteFile", path, "", deleteFile(f, path))
         [] operation = "READ_DIRECTORY" -> Ran("readDirectory", path, "", readDirectory(f, path))
         [] operation = "CREATE_DIRECTORY" -> Ran("createDirectory", path, "", createDirectory(f, path))
         [] operation = "SCAN_PROJECT" -> Ran("scanProject", path, "", scanProject(f, path))
         [] OTHER -> Refused(f, "Unknown operation")

\* DatabaseAgent.executeOperation: [fs, result, calls]
executeOperation(f, response, lint, exec) ==
    LET operation == response.operation
        path == response.path
    IN CASE operation = "EXECUTE_COMMAND" ->
                IF Falsy(response, "command")
                THEN Refused(f, "Command is required for runCommand operation")
                ELSE Ran("runCommand", path, response.command, runCommand(f, response.command, path, exec))
         [] operation = "READ_FILE" -> Ran("readFile", path, "", readFile(f, path))
         [] operation = "WRITE_FILE" ->
                IF Falsy(response, "fileContent")
                THEN Refused(f, "File content is required for writefile operation")
                ELSE Ran("writeFile", path, response.fileContent, writeFile(f, path, response.fileContent, lint))
         [] operation = "DELETE_FILE" -> Ran("deleteFile", path, "", deleteFile(f, path))
         [] operation = "READ_DIRECTORY" -> Ran("readDirectory", path, "", readDirectory(f, path))
         [] operation = "CREATE_DIRECTORY" -> Ran("createDirectory", path, "", createDirectory(f, path))
         [] operation = "SCAN_PROJECT" -> Ran("scanProject", path, "", scanProject(f, path))
         [] OTHER -> Refused(f, "Unknown operation")

(***************************************************************************)
(* What the model can answer.                                              *)
(***************************************************************************)
Answer(success, operation) == [success |-> success, operation |-> operation, explanation |-> "why"]

\* The answers of Spec: every operation, with and without its payload.
RichOutputs ==
    UNION {
        {Answer(s, "READ_FILE") @@ [path |-> p] : p \in {P_a, P_ghost}}
        \cup {Answer(s, "READ_FILE"),
              Answer(s, "WRITE_FILE") @@ [path |-> P_todo],
              Answer(s, "WRITE_FILE") @@ [path |-> P_todo, fileContent |-> ""],
              Answer(s, "WRITE_FILE") @@ [path |-> P_todo, fileContent |-> "hello"],
              Answer(s, "WRITE_FILE") @@ [path |-> P_app, fileContent |-> "hello"],
              Answer(s, "DELETE_FILE") @@ [path |-> P_a],
              Answer(s, "READ_DIRECTORY"),
              Answer(s, "CREATE_DIRECTORY") @@ [path |-> P_notes],
              Answer(s, "EXECUTE_COMMAND"),
              Answer(s, "EXECUTE_COMMAND") @@ [command |-> ""],
              Answer(s, "EXECUTE_COMMAND") @@ [command |-> "ls"],
              Answer(s, "SCAN_PROJECT"),
              Answer(s, Null),
              Answer(s, Null) @@ [path |-> P_empty],
              Answer(s, Null) @@ [path |-> P_empty, command |-> "ls"]}
        : s \in BOOLEAN}
    \cup {Answer(FALSE, "RENAME_FILE"), [success |-> FALSE, operation |-> Null]}

\* The answers of SpecLong: one that never completes, and the completing ones.
LongOutputs ==
    {Answer(FALSE, "READ_FILE") @@ [path |-> P_ghost]}
    \cup {Answer(TRUE, Null) @@ [path |-> P_empty],
          Answer(TRUE, "READ_FILE") @@ [path |-> P_a]}
    \cup {Answer(FALSE, "RENAME_FILE")}

\* What a failed model call throws.
TransportError == "network error"
SchemaError == "No object generated: response did not match schema"
KeyError == "GOOGLE_GENERATIVE_AI_API_KEY is not defined in cli/.env file"
MaxRetriesError == "Maximum retries reached"

(***************************************************************************)
(* The step engine (index.ts).                                             *)
(*   pc = "idle"      no run in progress                                   *)
(*        "loop"      spawnAgent at the test of its while loop             *)
(*        "enter"     runNextStep(retryCount) called                       *)
(*        "model"     awaiting generateObject                              *)
(*        "dispatch"  Decision appended, operation not yet executed        *)
(*        "backoff"   in the catch block, waiting 10 seconds               *)
(*        "pacing"    spawnAgent waiting 4 seconds                         *)
(*        "done"      spawnAgent returned                                  *)
(***************************************************************************)
maxIterations == 50
maxRetries == 3

NoRet == [returned |-> FALSE, isCompleted |-> FALSE, error |-> Undefined]
Returned(isCompleted, error) == [returned |-> TRUE, isCompleted |-> isCompleted, error |-> error]
NoResult == [none |-> TRUE]
NoBefore == [calls |-> <<>>, result |-> NoResult]
NoSignal == "none"
NoOutput == [none |-> TRUE]
NoDelay == "start"

\* A push that overwrites the last message instead of adding one.
push_overLast(msgs, message) == Append(SubSeq(msgs, 1, Len(msgs) - 1), message)

\* this.messages.push(message)
push(msgs, message) == Append(msgs, message)

\* The Decision of the step in progress: the last assistant message, parsed.
LastDecision == messages[Len(messages)].content.json

\* spawnAgent("task"): new DatabaseAgent(prompt) and the loop, i iterations done
\* without a Decision, the last runNextStep call having had retryCount r
Constructed(i, r) ==
    /\ cwd \in WorkingDirs
    /\ apiKey \in BOOLEAN
    /\ fs = InitFs
    /\ tasks = <<"task">>
    /\ messages = <<UserText(tasks[1])>>
    /\ stepCount = 0
    /\ iterations = i
    /\ retryCount = r
    /\ pc = "loop"
    /\ lastError = Undefined
    /\ calls = <<>>
    /\ result = NoResult
    /\ opCount = 0
    /\ before = NoBefore
    /\ signal = NoSignal
    /\ output = NoOutput
    /\ delay = IF i = 0 THEN NoDelay ELSE "pacing"
    /\ attempts = IF apiKey THEN r ELSE 0

\* The loop with the test `iterations <= maxIterations`.
Iterate_pastCap ==
    /\ pc = "loop"
    /\ iterations <= maxIterations
    /\ iterations' = iterations + 1
    /\ retryCount' = 0
    /\ attempts' = 0
    /\ ret' = NoRet
    /\ pc' = "enter"
    /\ UNCHANGED <<cwd, apiKey, fs, messages, stepCount, lastError, console, calls, result,
                   opCount, before, tasks, signal, output, delay>>

\* while (iterations < maxIterations) { iterations++; agent.runNextStep() ...
Iterate ==
    /\ pc = "loop"
    /\ iterations < maxIterations
    /\ iterations' = iterations + 1
    /\ retryCount' = 0
    /\ attempts' = 0
    /\ ret' = NoRet
    /\ pc' = "enter"
    /\ UNCHANGED <<cwd, apiKey, fs, messages, stepCount, lastError, console, calls, result,
                   opCount, before, tasks, signal, output, delay>>

\* The ceiling test as `retryCount >= 3`: the fourth attempt is never made.
RetriesExhausted_early ==
    /\ pc = "enter"
    /\ retryCount >= maxRetries
    /\ ret' = Returned(FALSE, MaxRetriesError)
    /\ pc' = "pacing"
    /\ UNCHANGED <<cwd, apiKey, fs, messages, stepCount, iterations, retryCount, lastError,
                   console, calls, result, opCount, before, tasks, signal, output, delay, attempts>>

\* if (retryCount > 3) return { isCompleted: false, error: 'Maximum retries reached' },
\* which every pending runNextStep hands on to spawnAgent; spawnAgent reads
\* isCompleted alone and goes on to its pacing wait.
RetriesExhausted ==
    /\ pc = "enter"
    /\ retryCount > maxRetries
    /\ ret' = Returned(FALSE, MaxRetriesError)
    /\ pc' = "pacing"
    /\ UNCHANGED <<cwd, apiKey, fs, messages, stepCount, iterations, retryCount, lastError,
                   console, calls, result, opCount, before, tasks, signal, output, delay, attempts>>

\* A getGeminiModel that hands out a model whether or not the credential is set.
Invoke_withoutKey ==
    /\ pc = "enter"
    /\ retryCount <= maxRetries
    /\ pc' = "model"
    /\ output' = NoOutput
    /\ delay' = "none"
    /\ attempts' = attempts + 1
    /\ UNCHANGED <<cwd, apiKey, fs, messages, stepCount, iterations, retryCount, ret, lastError,
                   console, calls, result, opCount, before, tasks, signal>>

\* A runNextStep whose ceiling test lets one more attempt through.
Invoke_pastCeiling ==
    /\ pc = "enter"
    /\ retryCount <= maxRetries + 1
    /\ apiKey
    /\ pc' = "model"
    /\ output' = NoOutput
    /\ delay' = "none"
    /\ attempts' = attempts + 1
    /\ UNCHANGED <<cwd, apiKey, fs, messages, stepCount, iterations, retryCount, ret, lastError,
                   console, calls, result, opCount, before, tasks, signal>>

\* generateObject({ model: getGeminiModel(), ... }) with the credential present
Invoke ==
    /\ pc = "enter"
    /\ retryCount <= maxRetries
    /\ apiKey
    /\ pc' = "model"
    /\ output' = NoOutput
    /\ delay' = "none"
    /\ attempts' = attempts + 1
    /\ UNCHANGED <<cwd, apiKey, fs, messages, stepCount, iterations, retryCount, ret, lastError,
                   console, calls, result, opCount, before, tasks, signal>>

\* A catch block that takes the last message off the Conversation before it
\* waits.
Caught_dropsLast(message, raw) ==
    /\ lastError' = message
    /\ output' = raw
    /\ messages' = SubSeq(messages, 1, Len(messages) - 1)
    /\ console' = console \cup {"agentError"}
    /\ pc' = "backoff"
    /\ UNCHANGED <<delay, attempts>>
    /\ UNCHANGED <<cwd, apiKey, fs, stepCount, iterations, retryCount, ret,
                   calls, result, opCount, before, tasks, signal>>

\* the catch block: print the error, then wait 10 seconds
Caught(message, raw) ==
    /\ lastError' = message
    /\ output' = raw
    /\ console' = console \cup {"agentError"}
    /\ pc' = "backoff"
    /\ UNCHANGED <<delay, attempts>>
    /\ UNCHANGED <<cwd, apiKey, fs, messages, stepCount, iterations, retryCount, ret,
                   calls, result, opCount, before, tasks, signal>>

\* getGeminiModel() throws inside the try block when the credential is missing
KeyMissing ==
    /\ pc = "enter"
    /\ retryCount <= maxRetries
    /\ ~apiKey
    /\ Caught(KeyError, NoOutput)

\* generateObject rejects: the call failed, or the answer does not fit the schema
ModelFails(outputs) ==
    /\ pc = "model"
    /\ \/ Caught(TransportError, NoOutput)
       \/ \E raw \in outputs : ~AIResponseSchema(raw).ok /\ Caught(SchemaError, raw)

\* A generateObject that hands on whatever the model answered, unvalidated.
ModelDecides_unvalidated(outputs) ==
    /\ pc = "model"
    /\ \E raw \in outputs :
        /\ output' = raw
        /\ messages' = push(messages, AssistantMessage(AIResponseSchema(raw).object))
    /\ stepCount' = stepCount + 1
    /\ console' = console \cup {"agentAction"}
    /\ pc' = "dispatch"
    /\ UNCHANGED <<cwd, apiKey, fs, iterations, retryCount, ret, lastError, calls, result,
                   opCount, before, tasks, signal, delay, attempts>>

\* generateObject resolves: push the Decision, count the step, show the explanation
ModelDecides(outputs) ==
    /\ pc = "model"
    /\ \E raw \in outputs :
        /\ AIResponseSchema(raw).ok
        /\ output' = raw
        /\ messages' = push(messages, AssistantMessage(AIResponseSchema(raw).object))
    /\ stepCount' = stepCount + 1
    /\ console' = console \cup {"agentAction"}
    /\ pc' = "dispatch"
    /\ UNCHANGED <<cwd, apiKey, fs, iterations, retryCount, ret, lastError, calls, result,
                   opCount, before, tasks, signal, delay, attempts>>

\* A step engine that lets a Decision without operation pass without a Result.
Synthetic_none(object) == NoResult

\* The Result of a Decision without operation: a failure when it carries a
\* command or a path, none otherwise.
Synthetic(object) ==
    IF ~Falsy(object, "command") \/ ~IsEmptyString(object.path)
    THEN [success |-> FALSE, error |-> "You cannot run a command or read a file without a request"]
    ELSE NoResult

\* A step engine that gives up the run when an operation fails.
StepExit_abortsOnFailure(object, res) ==
    IF object.success \/ (res # NoResult /\ ~res.success) THEN "done" ELSE "pacing"

\* A step engine whose failed operation lands in the catch block of runNextStep.
StepExit_retriesOnFailure(object, res) ==
    IF res # NoResult /\ ~res.success THEN "backoff"
    ELSE IF object.success THEN "done" ELSE "pacing"

\* A spawnAgent that goes on to its pacing wait whatever the step returned.
StepExit_neverEnds(object, res) == "pacing"

\* A step engine that takes the flag only when the operation went through.
StepExit_verifiesOutcome(object, res) ==
    IF object.success /\ (res = NoResult \/ res.success) THEN "done" ELSE "pacing"

\* A spawnAgent without its 4 seconds: an unfinished step goes straight back to
\* the test of the loop.
StepExit_noPacing(object, res) == IF object.success THEN "done" ELSE "loop"

\* return { isCompleted: object.success }, and spawnAgent's
\* if (result.isCompleted) return; otherwise it goes on to its pacing wait
StepExit(object, res) == IF object.success THEN "done" ELSE "pacing"

\* What the outside world can answer to the operation of a Decision: a lint run
\* for a write of a lintable file, a shell run for a command.
LintsOf(object) ==
    IF object.operation = "WRITE_FILE" /\ shouldLintFile(object.path) THEN LintRuns ELSE {NoLint}
ExecsOf(object) ==
    IF object.operation = "EXECUTE_COMMAND" THEN ExecRuns ELSE {NoExec}

\* The rest of the try block after the Decision is pushed, up to spawnAgent's
\* test of result.isCompleted.
Dispatch ==
    /\ pc = "dispatch"
    /\ LET object == LastDecision IN
       \E lint \in LintsOf(object), exec \in ExecsOf(object) :
         LET ex == IF object.operation # Null
                   THEN executeOperation(fs, object, lint, exec)
                   ELSE [fs |-> fs, result |-> Synthetic(object), calls |-> <<>>]
         IN /\ fs' = ex.fs
            /\ result' = ex.result
            /\ calls' = ex.calls
            /\ opCount' = opCount + Len(ex.calls)
            /\ messages' = IF ex.result # NoResult
                           THEN push(messages, UserMessage(ex.result)) ELSE messages
            /\ console' = IF object.success THEN console \cup {"completionSummary"} ELSE console
            /\ ret' = Returned(object.success, Undefined)
            /\ pc' = StepExit(object, ex.result)
    /\ before' = [calls |-> calls, result |-> result]
    /\ UNCHANGED <<cwd, apiKey, stepCount, iterations, retryCount, lastError, tasks, signal, output, delay, attempts>>

\* A catch block that retries with `this.runNextStep(retryCount)`.
Backoff_uncounted ==
    /\ pc = "backoff"
    /\ lastError' = Undefined
    /\ delay' = "backoff"
    /\ pc' = "enter"
    /\ UNCHANGED attempts
    /\ UNCHANGED <<cwd, apiKey, fs, messages, stepCount, iterations, retryCount, ret, console,
                   calls, result, opCount, before, tasks, signal, output>>

\* the 10 seconds are over: return await this.runNextStep(retryCount + 1)
Backoff ==
    /\ pc = "backoff"
    /\ retryCount' = retryCount + 1
    /\ lastError' = Undefined
    /\ delay' = "backoff"
    /\ pc' = "enter"
    /\ UNCHANGED attempts
    /\ UNCHANGED <<cwd, apiKey, fs, messages, stepCount, iterations, ret, console, calls,
                   result, opCount, before, tasks, signal, output>>

\* the 4 seconds are over: back to the test of the while loop
Pace ==
    /\ pc = "pacing"
    /\ delay' = "pacing"
    /\ pc' = "loop"
    /\ UNCHANGED attempts
    /\ UNCHANGED <<cwd, apiKey, fs, messages, stepCount, iterations, retryCount, ret, lastError,
                   console, calls, result, opCount, before, tasks, signal, output>>

\* The end of the loop without its two console lines.
CapReached_silent ==
    /\ pc = "loop"
    /\ ~(iterations < maxIterations)
    /\ pc' = "done"
    /\ UNCHANGED <<cwd, apiKey, fs, messages, stepCount, iterations, retryCount, ret, lastError,
                   console, calls, result, opCount, before, tasks, signal, output, delay, attempts>>

\* the loop ends without a completed step: 'Maximum iterations reached'
CapReached ==
    /\ pc = "loop"
    /\ ~(iterations < maxIterations)
    /\ console' = console \cup {"maxIterations"}
    /\ pc' = "done"
    /\ UNCHANGED <<cwd, apiKey, fs, messages, stepCount, iterations, retryCount, ret, lastError,
                   calls, result, opCount, before, tasks, signal, output, delay, attempts>>

(***************************************************************************)
(* SpecLong: a whole run of spawnAgent from its construction, with the     *)
(* model's answers drawn from LongOutputs.                                 *)
(***************************************************************************)
InitLong == Constructed(0, 0) /\ ret = NoRet /\ console = {}

NextLong ==
    \/ Iterate
    \/ RetriesExhausted
    \/ Invoke
    \/ KeyMissing
    \/ ModelFails(LongOutputs)
    \/ ModelDecides(LongOutputs)
    \/ Dispatch
    \/ Backoff
    \/ Pace
    \/ CapReached

SpecLong == InitLong /\ [][NextLong]_vars

(***************************************************************************)
(* Spec: the last MaxSteps iterations of a run whose earlier iterations    *)
(* all ran out of retries (so the Conversation still holds the task        *)
(* alone), with the model's answers drawn from RichOutputs.                *)
(***************************************************************************)
Init ==
    /\ Constructed(maxIterations - MaxSteps, maxRetries + 1)
    /\ ret = Returned(FALSE, MaxRetriesError)
    /\ console = {"agentError"}

Next ==
    \/ Iterate
    \/ RetriesExhausted
    \/ Invoke
    \/ KeyMissing
    \/ ModelFails(RichOutputs)
    \/ ModelDecides(RichOutputs)
    \/ Dispatch
    \/ Backoff
    \/ Pace
    \/ CapReached

Spec == Init /\ [][Next]_vars

(***************************************************************************)
(* SpecTools: the executor functions applied directly, at most MaxOps in a *)
(* row, to the filesystem the process starts with.                         *)
(***************************************************************************)
InitTools ==
    /\ cwd \in WorkingDirs
    /\ apiKey = TRUE
    /\ fs = InitFs
    /\ messages = <<>>
    /\ stepCount = 0
    /\ iterations = 0
    /\ retryCount = 0
    /\ pc = "idle"
    /\ ret = NoRet
    /\ lastError = Undefined
    /\ console = {}
    /\ calls = <<>>
    /\ result = NoResult
    /\ opCount = 0
    /\ before = NoBefore
    /\ tasks = <<>>
    /\ signal = NoSignal
    /\ output = NoOutput
    /\ delay = NoDelay
    /\ attempts = 0

Applied(tool, path, arg, out) ==
    /\ pc = "idle"
    /\ opCount < MaxOps
    /\ fs' = out.fs
    /\ result' = out.result
    /\ calls' = <<CallOf(tool, path, arg, out)>>
    /\ opCount' = opCount + 1
    /\ before' = [calls |-> calls, result |-> result]
    /\ UNCHANGED <<cwd, apiKey, messages, stepCount, iterations, retryCount, pc, ret,
                   lastError, console, tasks, signal, output, delay, attempts>>

ReadFileOp == \E p \in ToolPaths : Applied("readFile", p, "", readFile(fs, p))

WriteFileOp ==
    \E p \in ToolPaths, c \in Contents \cup {""} :
        \E lint \in (IF shouldLintFile(p) THEN LintRuns ELSE {NoLint}) :
            Applied("writeFile", p, c, writeFile(fs, p, c, lint))

DeleteFileOp == \E p \in ToolPaths : Applied("deleteFile", p, "", deleteFile(fs, p))

ReadDirectoryOp == \E p \in ToolPaths : Applied("readDirectory", p, "", readDirectory(fs, p))

CreateDirectoryOp == \E p \in ToolPaths : Applied("createDirectory", p, "", createDirectory(fs, p))

RunCommandOp ==
    \E c \in Commands, dir \in {P_empty, P_dot, P_ghost}, exec \in ExecRuns :
        Applied("runCommand", dir, c, runCommand(fs, c, dir, exec))

ScanProjectOp == \E p \in {P_all, P_dot, P_a, P_ghost, P_dep} : Applied("scanProject", p, "", scanProject(fs, p))

NextTools ==
    \/ ReadFileOp
    \/ WriteFileOp
    \/ DeleteFileOp
    \/ ReadDirectoryOp
    \/ CreateDirectoryOp
    \/ RunCommandOp
    \/ ScanProjectOp

SpecTools == InitTools /\ [][NextTools]_vars

(***************************************************************************)
(* SpecSession: the terminal (terminal.ts).  Terminal.start reads lines,   *)
(* handles the special commands itself and awaits spawnAgent(command) for  *)
(* every other line that is not blank; the model answers a task with a     *)
(* completing Decision or not at all.                                      *)
(*   pc = "prompt"    awaiting terminal.question                           *)
(*        "closed"    process.exit(0)                                      *)
(***************************************************************************)
Lines == {"", " ", "help", "HELP", "?", "clear", "cls", "exit", "QUIT", "q", "help ",
          "add a users table"}

\* String.prototype.toLowerCase on the lines of the model
toLowerCase(str) ==
    CASE str = "HELP" -> "help"
      [] str = "QUIT" -> "quit"
      [] OTHER -> str

\* String.prototype.trim on the lines of the model
trim(str) ==
    CASE str = " " -> ""
      [] str = "help " -> "help"
      [] OTHER -> str

\* A terminal that knows `help` alone.
handleSpecialCommand_helpOnly(command) ==
    IF command \in {"help", "?"} THEN "showHelp" ELSE "default"

\* handleSpecialCommand(command): the case of its switch; it returns true for
\* every case but the default
handleSpecialCommand(command) ==
    CASE command \in {"help", "?"} -> "showHelp"
      [] command \in {"clear", "cls"} -> "clear"
      [] command \in {"exit", "quit", "q"} -> "exit"
      [] OTHER -> "default"

SessionOutputs == {Answer(TRUE, Null) @@ [path |-> P_empty], Answer(FALSE, "RENAME_FILE")}

InitSession ==
    /\ cwd \in WorkingDirs
    /\ apiKey \in BOOLEAN
    /\ fs = InitFs
    /\ messages = <<>>
    /\ stepCount = 0
    /\ iterations = 0
    /\ retryCount = 0
    /\ pc = "prompt"
    /\ ret = NoRet
    /\ lastError = Undefined
    /\ console = {"welcome"}
    /\ calls = <<>>
    /\ result = NoResult
    /\ opCount = 0
    /\ before = NoBefore
    /\ tasks = <<>>
    /\ signal = NoSignal
    /\ output = NoOutput
    /\ delay = NoDelay
    /\ attempts = 0

\* A line the loop of Terminal.start deals with itself: a blank line, or a
\* special command.
LineIntercepted ==
    /\ pc = "prompt"
    /\ \E command \in Lines :
        LET special == handleSpecialCommand(toLowerCase(command)) IN
        /\ trim(command) = "" \/ special # "default"
        /\ console' = CASE trim(command) = "" -> console
                        [] special = "showHelp" -> console \cup {"help"}
                        [] special = "clear" -> {"header"}
                        [] OTHER -> console \cup {"goodbye"}
        /\ pc' = IF trim(command) # "" /\ special = "exit" THEN "closed" ELSE "prompt"
    /\ UNCHANGED <<cwd, apiKey, fs, messages, stepCount, iterations, retryCount, ret, lastError,
                   calls, result, opCount, before, tasks, signal, output, delay, attempts>>

\* A session that keeps one Conversation: the task is pushed onto the messages
\* of the tasks before it.
LineForwarded_keepsHistory ==
    /\ pc = "prompt"
    /\ Len(tasks) < MaxTasks
    /\ \E command \in Lines :
        /\ trim(command) # ""
        /\ handleSpecialCommand(toLowerCase(command)) = "default"
        /\ tasks' = Append(tasks, command)
        /\ messages' = Append(messages, UserText(command))
    /\ console' = console \cup {"task"}
    /\ stepCount' = 0
    /\ iterations' = 0
    /\ retryCount' = 0
    /\ ret' = NoRet
    /\ lastError' = Undefined
    /\ calls' = <<>>
    /\ result' = NoResult
    /\ before' = NoBefore
    /\ signal' = NoSignal
    /\ output' = NoOutput
    /\ delay' = NoDelay
    /\ attempts' = 0
    /\ pc' = "loop"
    /\ UNCHANGED <<cwd, apiKey, fs, opCount>>

\* Any other line: await spawnAgent(command), which constructs a DatabaseAgent
\* and enters its loop.
LineForwarded ==
    /\ pc = "prompt"
    /\ Len(tasks) < MaxTasks
    /\ \E command \in Lines :
        /\ trim(command) # ""
        /\ handleSpecialCommand(toLowerCase(command)) = "default"
        /\ tasks' = Append(tasks, command)
        /\ messages' = <<UserText(command)>>
    /\ console' = console \cup {"task"}
    /\ stepCount' = 0
    /\ iterations' = 0
    /\ retryCount' = 0
    /\ ret' = NoRet
    /\ lastError' = Undefined
    /\ calls' = <<>>
    /\ result' = NoResult
    /\ before' = NoBefore
    /\ signal' = NoSignal
    /\ output' = NoOutput
    /\ delay' = NoDelay
    /\ attempts' = 0
    /\ pc' = "loop"
    /\ UNCHANGED <<cwd, apiKey, fs, opCount>>

\* A terminal that prompts again as soon as a step of the run has returned.
TaskReturns_notAwaited ==
    /\ pc \in {"done", "pacing"}
    /\ signal' = "resolved"
    /\ pc' = "prompt"
    /\ UNCHANGED <<cwd, apiKey, fs, messages, stepCount, iterations, retryCount, ret, lastError,
                   console, calls, result, opCount, before, tasks, output, delay, attempts>>

\* A terminal that closes when a task has run.
TaskReturns_exits ==
    /\ pc = "done"
    /\ signal' = "resolved"
    /\ pc' = "closed"
    /\ UNCHANGED <<cwd, apiKey, fs, messages, stepCount, iterations, retryCount, ret, lastError,
                   console, calls, result, opCount, before, tasks, output, delay, attempts>>

\* spawnAgent's promise resolves (with no value): back to the prompt
TaskReturns ==
    /\ pc = "done"
    /\ signal' = "resolved"
    /\ pc' = "prompt"
    /\ UNCHANGED <<cwd, apiKey, fs, messages, stepCount, iterations, retryCount, ret, lastError,
                   console, calls, result, opCount, before, tasks, output, delay, attempts>>

NextSession ==
    \/ LineIntercepted
    \/ LineForwarded
    \/ Iterate
    \/ RetriesExhausted
    \/ Invoke
    \/ KeyMissing
    \/ ModelFails(SessionOutputs)
    \/ ModelDecides(SessionOutputs)
    \/ Dispatch
    \/ Backoff
    \/ Pace
    \/ CapReached
    \/ TaskReturns

SpecSession == InitSession /\ [][NextSession]_vars

\* The steps of a run that wait for nothing but a timer, the model or an
\* operation: each of them happens once it can. What is typed at the prompt,
\* and when, is up to the user.
RunStep(outputs) ==
    \/ Iterate \/ RetriesExhausted \/ Invoke \/ KeyMissing
    \/ ModelFails(outputs) \/ ModelDecides(outputs)
    \/ Dispatch \/ Backoff \/ Pace \/ CapReached

\* A run whose model calls, operations and timers all come back.
SpecLongLive == SpecLong /\ WF_vars(RunStep(LongOutputs))

SpecSessionLive == SpecSession /\ WF_vars(RunStep(SessionOutputs) \/ TaskReturns)

(***************************************************************************)
(* The properties.                                                         *)
(***************************************************************************)
\* The Decision of the step that returned last: the latest assistant message.
AssistantIndex == IF messages[Len(messages)].role = "assistant" THEN Len(messages) ELSE Len(messages) - 1
StepDecision == messages[AssistantIndex].content.json

\* Some Decision of the run set completed = true.
EverCompleted ==
    \E i \in 1..Len(messages) : messages[i].role = "assistant" /\ messages[i].content.json.success

\* The step in progress ended with a Decision (not with exhausted retries).
StepAnswered == pc \in {"pacing", "done"} /\ ret.returned /\ ret.error = Undefined

MissingPayload(d) ==
    \/ d.operation = "WRITE_FILE" /\ ~Has(d, "fileContent")
    \/ d.operation = "EXECUTE_COMMAND" /\ ~Has(d, "command")

\* C1: in every state of a run of spawnAgent the number of iterations (calls of
\* runNextStep made by the loop) is at most the cap of 50.
C1_IterationsWithinCap == iterations <= maxIterations

\* A run that used all 50 iterations, some of them steps with a Decision.
C1_Witness == pc = "done" /\ iterations = maxIterations /\ stepCount > 0

C3_MissingPayloadRefused ==
    [][(pc = "dispatch" /\ MissingPayload(LastDecision)) =>
          /\ calls' = <<>>
          /\ opCount' = opCount
          /\ fs' = fs
          /\ result'.success = FALSE
          /\ Has(result', "error")
          /\ messages' = Append(messages, UserMessage(result'))]_vars

\* A step whose Decision lacked its payload has been dispatched.
C3_Witness ==
    /\ StepAnswered
    /\ MissingPayload(StepDecision)
    /\ calls = <<>>
    /\ result # NoResult
    /\ ~result.success

\* C4 (as claimed): once a step has run out of retries the run is in its
\* terminal state, carrying the message of the error that set off the retries,
\* and does not go on to another step.
C4_ExhaustionEndsRun ==
    (ret.returned /\ ret.error # Undefined) =>
        /\ pc = "done"
        /\ ret.error \in {TransportError, SchemaError, KeyError}

\* C5 (as claimed): with the credential missing no step enters the backoff wait
\* or is tried again.
C5_MissingKeyIsFatal == ~apiKey => (pc # "backoff" /\ retryCount = 0)

\* The executor functions that hand their path to resolvePath.
ResolvingTools == {"readFile", "writeFile", "deleteFile", "readDirectory", "createDirectory"}

\* C6 (as claimed): every relative path an executor function resolves lies in
\* the project root.
C6_RelativeStaysInRoot ==
    \A i \in 1..Len(calls) :
        (calls[i].tool \in ResolvingTools /\ ~isAbsolute(calls[i].path)) =>
            IsPrefix(PROJECT_ROOT, OsLocation(resolvePath(calls[i].path)))

\* C7 (as claimed): for a non-empty path, readFile answers 'File not found'
\* exactly when the path resolved against the project root does not exist, and
\* answers a file's content when it is a file.
C7_ReadFileByRoot ==
    \A i \in 1..Len(calls) :
        (calls[i].tool = "readFile" /\ ~IsEmptyString(calls[i].path)) =>
            LET loc == OsLocation(resolvePath(calls[i].path)) IN
            /\ (Has(result, "error") /\ result.error = "File not found") <=> (Kind(fs, loc) = "absent")
            /\ Kind(fs, loc) = "file" =>
                    (result.success /\ result.fileContent = fs[loc].content)

\* The write of the last call reached the disk: it succeeded, or failed on lint alone.
Written == result.success \/ result.error = "lint error"

\* C8 (as claimed): a readFile that follows a writeFile of the same path, the
\* write having reached the disk, answers the content written; and after a write
\* that failed on lint the file holds exactly the content written.
C8_WriteReadRoundTrip ==
    [][(pc = "idle" /\ calls # <<>> /\ calls' # <<>> /\ calls[1].tool = "writeFile" /\ Written)
          => /\ (result.success = FALSE) =>
                    fs[OsLocation(resolvePath(calls[1].path))] = File(calls[1].arg)
             /\ (calls'[1].tool = "readFile" /\ calls'[1].path = calls[1].path) =>
                    (result'.success /\ result'.fileContent = calls[1].arg)]_vars

C10_FailureFedBack ==
    /\ (StepAnswered /\ result # NoResult /\ ~result.success) =>
            /\ messages[Len(messages)] = UserMessage(result)
            /\ messages[Len(messages) - 1].role = "assistant"
    /\ pc = "done" => ((ret.returned /\ ret.isCompleted) \/ "maxIterations" \in console)

\* The model is invoked again with the 'File not found' Result of a READ_FILE as
\* the last message.
C10_Witness ==
    /\ pc = "model"
    /\ Len(messages) >= 3
    /\ messages[Len(messages)].role = "user"
    /\ Has(messages[Len(messages)].content.json, "error")
    /\ messages[Len(messages)].content.json.error = "File not found"

\* A path below a dependency, version-control or build-cache directory.
UnderExcluded(segs) == \E i \in 1..(Len(segs) - 1) : segs[i] \in {"node_modules", ".git", ".next"}

C12_CreateDirectoryIdempotent ==
    [][(/\ pc = "idle"
        /\ calls # <<>>
        /\ calls[1].tool = "createDirectory"
        /\ result.success
        /\ opCount' = opCount + 1
        /\ calls' = calls)
          => (result'.success /\ fs' = fs)]_vars

\* createDirectory has run twice in a row on a path that did not exist at
\* first, both times with success.
C12_Witness ==
    /\ opCount = 2
    /\ calls # <<>>
    /\ calls[1].tool = "createDirectory"
    /\ before.calls = calls
    /\ before.result.success
    /\ result.success
    /\ Kind(InitFs, OsLocation(resolvePath(calls[1].path))) = "absent"
    /\ Kind(fs, OsLocation(resolvePath(calls[1].path))) = "dir"

\* Where the writeFile of the last call put its file, and the directories above.
WrittenAt == OsLocation(resolvePath(calls[1].path))
ParentsExist == \A n \in 0..(Len(WrittenAt) - 1) : Kind(fs, SubSeq(WrittenAt, 1, n)) = "dir"

C14_FaultsBecomeResults ==
    [][pc = "dispatch" =>
          /\ pc' \in {"pacing", "done"}
          /\ ret'.returned /\ ret'.error = Undefined
          /\ retryCount' = retryCount
          /\ lastError' = lastError
          /\ "agentError" \in console' => "agentError" \in console
          /\ calls' # <<>> =>
                /\ Has(result', "success")
                /\ ~result'.success => Has(result', "error")
                /\ messages' = Append(messages, UserMessage(result'))]_vars

\* A command that timed out in one step and a read that hit an I/O error in
\* the next have both come back as failure Results.
C14_Witness ==
    /\ StepAnswered
    /\ calls # <<>> /\ before.calls # <<>>
    /\ before.calls[1].tool = "runCommand"
    /\ ~before.result.success /\ before.result.error = "Command timed out"
    /\ calls[1].tool = "readFile"
    /\ ~result.success /\ result.error = "EISDIR"

\* C15 (as claimed): a runCommand whose command exits non-zero or times out
\* answers success = false with a commandOutput that holds what the command
\* wrote to standard output and to standard error before it failed.
C15_PartialOutputKept ==
    \A i \in 1..Len(calls) :
        (/\ calls[i].tool = "runCommand"
         /\ calls[i].exec.exit # "zero"
         /\ result.error \in {"Command failed", "Command timed out"}) =>
            /\ ~result.success
            /\ result.commandOutput.stdout = calls[i].exec.stdout
            /\ result.commandOutput.warnings = calls[i].exec.stderr

\* The Decision carries a command or a path.
Carries(d) == ~Falsy(d, "command") \/ ~IsEmptyString(d.path)

\* C16: dispatching a Decision that has no operation but carries a command or a
\* path invokes no executor function, leaves the filesystem as it is, and
\* appends a Result with success = false and an error as a user message.
C16_NoOperationIsRefused ==
    [][(pc = "dispatch" /\ LastDecision.operation = Null /\ Carries(LastDecision)) =>
          /\ calls' = <<>>
          /\ opCount' = opCount
          /\ fs' = fs
          /\ Has(result', "success") /\ ~result'.success
          /\ Has(result', "error")
          /\ messages' = Append(messages, UserMessage(result'))]_vars

\* A Decision with a command but no operation has been answered with the
\* synthetic failure.
C16_Witness ==
    /\ StepAnswered
    /\ StepDecision.operation = Null
    /\ Has(StepDecision, "command") /\ StepDecision.command = "ls"
    /\ opCount = 0
    /\ messages[Len(messages)] = UserMessage(Synthetic(StepDecision))
    /\ ~messages[Len(messages)].content.json.success

\* C17: the dispatch of a Decision ends the run exactly when the Decision has
\* completed = true; a run that ended completed did so on its latest Decision,
\* the only one with completed = true; a run none of whose Decisions had
\* completed = true has not ended completed; and nothing happens after the end
\* of a run.
C17_CompletedEndsRun ==
    /\ [][pc = "dispatch" => ((pc' = "done") <=> LastDecision.success)]_vars
    /\ []((pc = "done" /\ ret.isCompleted) =>
            /\ StepDecision.success
            /\ \A i \in 1..(AssistantIndex - 1) :
                    messages[i].role = "assistant" => ~messages[i].content.json.success)
    /\ []((pc = "done" /\ ~EverCompleted) =>
            (~ret.isCompleted /\ "completionSummary" \notin console))
    /\ [][pc # "done"]_vars

\* A run ended by its second Decision, the first having had completed = false;
\* the operation of the completing Decision was executed.
C17_Witness ==
    /\ pc = "done"
    /\ ret.isCompleted
    /\ stepCount = 2
    /\ Len(messages) = 5
    /\ ~messages[2].content.json.success
    /\ messages[4].content.json.success
    /\ calls # <<>>

\* C18 (as claimed): when spawnAgent has returned to the terminal, the terminal
\* was told of a completion only if the run ended on a Decision with
\* completed = true; a run that ended otherwise reached it as a failure.
C18_SignalTellsOutcome ==
    (pc = "prompt" /\ signal # NoSignal) =>
        IF ret.returned /\ ret.isCompleted /\ StepDecision.success
        THEN signal = "resolved"
        ELSE signal = "rejected"

\* The words the terminal is to keep from spawnAgent.
ControlWords == {"help", "clear", "exit", "quit"}

\* C19: no command handed to spawnAgent is, in lower case, a control word.
C19_ControlWordsIntercepted ==
    \A i \in 1..Len(tasks) : toLowerCase(tasks[i]) \notin ControlWords

\* After a task has run and returned, `clear` has been typed and handled by the
\* terminal: the screen holds the header alone and no second task was begun.
C19_Witness ==
    /\ pc = "prompt"
    /\ Len(tasks) = 1
    /\ signal = "resolved"
    /\ console = {"header"}

\* C20: in a run without the credential no executor function has been invoked:
\* there has been no Decision, so the Conversation holds the task alone and
\* the filesystem is as the run found it.
C20_NoOperationWithoutKey ==
    ~apiKey =>
        /\ opCount = 0
        /\ calls = <<>>
        /\ stepCount = 0
        /\ messages = <<UserText(tasks[1])>>
        /\ fs = InitFs

\* A whole run without the credential: all its iterations used up, nothing
\* executed.
C20_Witness ==
    /\ ~apiKey
    /\ pc = "done"
    /\ iterations = maxIterations
    /\ opCount = 0

(***************************************************************************)
(* The switch of executeOperation and the tags that reach it.              *)
(***************************************************************************)
\* The function each case of the switch calls.
ExecutorOf(operation) ==
    CASE operation = "EXECUTE_COMMAND" -> "runCommand"
      [] operation = "READ_FILE" -> "readFile"
      [] operation = "WRITE_FILE" -> "writeFile"
      [] operation = "DELETE_FILE" -> "deleteFile"
      [] operation = "READ_DIRECTORY" -> "readDirectory"
      [] operation = "CREATE_DIRECTORY" -> "createDirectory"
      [] operation = "SCAN_PROJECT" -> "scanProject"

\* A model output whose operation is neither one of the seven tags nor null.
UnknownTag(raw) == Has(raw, "operation") /\ raw.operation \notin FileOperationEnum \cup {Null}

\* The two payload tests of the switch: `!command`, `!fileContent`.
PayloadRefused(d) ==
    \/ d.operation = "WRITE_FILE" /\ Falsy(d, "fileContent")
    \/ d.operation = "EXECUTE_COMMAND" /\ Falsy(d, "command")

\* C21 (as amended): the Decision of a step that names one of the seven
\* operations is dispatched to the one function of that operation, once, or to
\* none when its payload is missing or empty; a model output whose tag is none of the
\* seven never becomes a Decision: the call that received it fails on the
\* schema, the agent error is printed and the step waits for its retry, with
\* no message appended, no Result and no function called.
C21_OneExecutorPerKnownTag ==
    [][/\ (pc = "dispatch" /\ pc' # "dispatch" /\ LastDecision.operation \in FileOperationEnum) =>
            /\ Len(calls') = (IF PayloadRefused(LastDecision) THEN 0 ELSE 1)
            /\ \A i \in 1..Len(calls') : calls'[i].tool = ExecutorOf(LastDecision.operation)
       /\ (pc = "model" /\ UnknownTag(output')) =>
            /\ pc' = "backoff"
            /\ lastError' = SchemaError
            /\ "agentError" \in console'
            /\ UNCHANGED <<messages, calls, result, fs, opCount>>]_vars

\* A step has dispatched a Decision to deleteFile, and the next step is waiting
\* for its retry after an answer with an unknown tag: the Result of the delete
\* is still the last message.
C21_Witness ==
    /\ pc = "backoff"
    /\ UnknownTag(output)
    /\ Len(calls) = 1
    /\ calls[1].tool = "deleteFile"
    /\ messages[Len(messages)] = UserMessage(result)

\* C21 (as stated): once an answer whose tag is none of the seven has been
\* handled, the step holds the failure Result of the unknown operation and no
\* function was called.
C21_UnknownTagYieldsResult ==
    (UnknownTag(output) /\ pc # "model") =>
        /\ result = [success |-> FALSE, error |-> "Unknown operation"]
        /\ calls = <<>>

\* C22: a run has one thread of control: a model invocation starts only at the
\* entry of runNextStep, where neither an invocation nor an operation is
\* pending; only the dispatch of a Decision calls an executor function, at most
\* one, so that a run never has more operations than Decisions.
C22_OneAtATime ==
    [][/\ (pc' = "model" /\ pc # "model") => (pc = "enter" /\ output' = NoOutput)
       /\ (pc' = "dispatch" /\ pc # "dispatch") => pc = "model"
       /\ opCount' # opCount => (pc = "dispatch" /\ opCount' = opCount + 1 /\ Len(calls') = 1)
       /\ opCount' <= stepCount']_vars

\* The second model invocation of a run is pending, after one step that
\* performed one operation.
C22_Witness == pc = "model" /\ stepCount = 1 /\ opCount = 1 /\ Len(calls) = 1

\* C23: the Conversation of a run only grows at its end: whatever a step or a
\* retry does, the messages it found are still there afterwards, unchanged and
\* in the same order, and the first one is the task.
C23_ConversationAppendOnly ==
    [][/\ Len(messages') >= Len(messages)
       /\ SubSeq(messages', 1, Len(messages)) = messages
       /\ messages'[1] = UserText(tasks[1])]_vars

\* A run ended after two steps that each added a Decision and a Result, the
\* second one reached through a retry.
C23_Witness ==
    /\ pc = "done"
    /\ Len(messages) = 5
    /\ messages[1] = UserText(tasks[1])
    /\ retryCount > 0

\* C24: a step whose Decision names an operation adds two messages to the
\* Conversation: first the Decision as parsed, under the assistant's role,
\* while nothing has been executed yet; then, with the operation executed, its
\* Result under the user's role, which is there when the step returns its
\* completion flag. No other action of the run adds a message.
C24_DecisionThenResult ==
    [][/\ (pc = "model" /\ pc' = "dispatch") =>
            /\ Len(messages') = Len(messages) + 1
            /\ messages'[Len(messages')].role = "assistant"
            /\ messages'[Len(messages')].content = [json |-> AIResponseSchema(output').object]
            /\ UNCHANGED <<fs, calls, result, opCount, ret>>
       /\ (pc = "dispatch" /\ pc' # "dispatch" /\ LastDecision.operation # Null) =>
            /\ Len(messages') = Len(messages) + 1
            /\ result' # NoResult
            /\ messages'[Len(messages')].role = "user"
            /\ messages'[Len(messages')].content = [json |-> result']
            /\ ret' = Returned(LastDecision.success, Undefined)
       /\ Len(messages') # Len(messages) => pc \in {"model", "dispatch"}]_vars

\* A step has listed the project root: the Conversation holds the task, the
\* Decision and the Result, and the run waits for its next step.
C24_Witness ==
    /\ pc = "pacing"
    /\ Len(messages) = 3
    /\ messages[2].role = "assistant"
    /\ messages[2].content.json.operation = "READ_DIRECTORY"
    /\ messages[3].role = "user"
    /\ messages[3].content.json = result
    /\ result.success

\* C25: from a failed model call to the call that retries it the run goes
\* through the catch block, the backoff wait and the entry of runNextStep, and
\* nowhere else; none of these adds or removes a message or executes an
\* operation, so the retry sends the Conversation the failed call sent.
C25_RetryKeepsConversation ==
    [][/\ (pc' = "backoff" /\ pc # "backoff") => pc \in {"model", "enter"}
       /\ pc = "backoff" => (pc' = "enter" /\ retryCount' = retryCount + 1)
       /\ (pc = "enter" /\ retryCount > 0 /\ pc' # "enter") => pc' \in {"model", "backoff", "pacing"}
       /\ (pc' = "backoff" \/ pc = "backoff" \/ (pc = "enter" /\ retryCount > 0)) =>
            UNCHANGED <<messages, fs, calls, result, opCount, stepCount>>]_vars

\* The second step's model call failed and is being made again: the
\* Conversation holds what the first step left.
C25_Witness ==
    /\ pc = "model"
    /\ retryCount > 0
    /\ Len(messages) = 3
    /\ messages[3] = UserMessage(result)
    /\ opCount = 1

\* C26: a model invocation never follows another one directly: when it
\* begins, a wait has elapsed since the invocation before it, the 10 seconds of
\* the catch block when it is a retry and the 4 seconds of spawnAgent when it
\* opens a new step, in which case no step of the run has completed; only the
\* first invocation of a run has no wait before it.
C26_DelayBetweenInvocations ==
    [][(pc' = "model" /\ pc # "model") =>
            /\ delay # "none"
            /\ delay' = "none"
            /\ (delay = "backoff") <=> (retryCount > 0)
            /\ delay = "pacing" => ~EverCompleted
            /\ delay = NoDelay => (stepCount = 0 /\ iterations = 1)]_vars

\* The second step of a run is at its second model invocation: the pacing wait
\* and then the backoff wait have elapsed since the first step's invocation.
C26_Witness == pc = "model" /\ delay = "none" /\ stepCount = 1 /\ retryCount = 1

\* C27 (as claimed): for a non-empty path that resolves, against the project
\* root, to a file or to nothing, deleteFile answers 'File not found' and
\* leaves the filesystem as it was exactly when nothing is there; otherwise
\* the file is gone afterwards and a readFile of the same path answers
\* 'File not found'.
C27_DeleteByRoot ==
    [][(pc = "idle" /\ opCount' = opCount + 1 /\ calls'[1].tool = "deleteFile"
            /\ ~IsEmptyString(calls'[1].path)
            /\ Kind(fs, OsLocation(resolvePath(calls'[1].path))) \in {"absent", "file"}) =>
          LET loc == OsLocation(resolvePath(calls'[1].path))
              notFound == Has(result', "error") /\ result'.error = "File not found"
          IN /\ notFound <=> (Kind(fs, loc) = "absent")
             /\ notFound => fs' = fs
             /\ ~notFound =>
                    /\ result'.success
                    /\ Kind(fs', loc) = "absent"
                    /\ readFile(fs', calls'[1].path).result.error = "File not found"]_vars

\* C28 (as claimed): with the process started in the project root, for a path
\* (the empty one and '.' included) that resolves to a directory or to nothing,
\* readDirectory answers 'Directory not found' exactly when nothing is there,
\* and otherwise lists exactly the immediate children of the directory, each
\* tagged file or directory.
C28_ListByRoot ==
    [][(pc = "idle" /\ opCount' = opCount + 1 /\ calls'[1].tool = "readDirectory"
            /\ cwd = PROJECT_ROOT
            /\ Kind(fs, OsLocation(resolvePath(calls'[1].path))) \in {"absent", "dir"}) =>
          LET dirPath == calls'[1].path
              loc == OsLocation(resolvePath(dirPath))
              notFound == Has(result', "error") /\ result'.error = "Directory not found"
          IN /\ notFound <=> (Kind(fs, loc) = "absent")
             /\ Kind(fs, loc) = "dir" =>
                    /\ result'.success
                    /\ result'.directoryList =
                          {[path |-> pathJoin(dirPath, basename(l)), type |-> TypeOf(Kind(fs, l) = "dir")] :
                              l \in Children(fs, loc)}]_vars

\* Whether the disk holds what the writeFile of the last call wrote.
OnDisk == ParentsExist /\ Kind(fs, WrittenAt) = "file"

\* C29: writeFile starts a lint run exactly when it has written a file whose
\* extension is .js, .jsx, .ts or .tsx. For any other path the write succeeds
\* exactly when the file is on disk with the content given; when a lint run
\* fails, the Result is a failure holding the lint diagnostic while the file is
\* on disk, and when it passes the Result is a success.
C29_LintOnlySourceFiles ==
    (calls # <<>> /\ calls[1].tool = "writeFile") =>
        LET lintable == extname(basename(calls[1].path.segs)) \in {".js", ".jsx", ".ts", ".tsx"} IN
        /\ Has(calls[1], "lint") => (lintable /\ OnDisk)
        /\ (lintable /\ Written) => Has(calls[1], "lint")
        /\ ~lintable =>
              /\ result.success <=> (OnDisk /\ fs[WrittenAt] = File(calls[1].arg))
              /\ ~result.success => result.error \in {"EISDIR", "ENOTDIR", "EEXIST"}
        /\ (Has(calls[1], "lint") /\ ~calls[1].lint.passed) =>
              /\ result = [success |-> FALSE, path |-> calls[1].path, error |-> "lint error"]
              /\ OnDisk
              /\ fs[WrittenAt] \in {File(calls[1].arg), File(AutoFixed)}
        /\ (Has(calls[1], "lint") /\ calls[1].lint.passed) => result.success

\* A write of app.ts whose lint run failed without fixing anything: the Result
\* is the lint failure and the file holds the content given.
C29_Witness ==
    /\ calls # <<>> /\ calls[1].tool = "writeFile"
    /\ calls[1].path = P_app
    /\ Has(calls[1], "lint") /\ ~calls[1].lint.passed /\ ~calls[1].lint.fixed
    /\ ~result.success /\ result.error = "lint error"
    /\ fs[WrittenAt] = File(calls[1].arg)

\* C30: an answer of the model that does not fit the schema is an error of the
\* model call: the catch block prints it and the step waits for its retry,
\* while the Conversation, the filesystem, the calls and the counters of
\* Decisions and operations stay as they were; the wait ends in the next
\* attempt; and every assistant message of the Conversation fits the schema.
C30_SchemaViolationIsModelError ==
    [][/\ (pc = "model" /\ output' # NoOutput /\ ~AIResponseSchema(output').ok) =>
            /\ pc' = "backoff"
            /\ lastError' = SchemaError
            /\ "agentError" \in console'
            /\ ~ret'.returned
            /\ UNCHANGED <<messages, fs, calls, result, opCount, stepCount, iterations>>
       /\ (pc = "backoff" /\ output # NoOutput) => (pc' = "enter" /\ retryCount' = retryCount + 1)
       /\ \A i \in 1..Len(messages') :
            messages'[i].role = "assistant" => AIResponseSchema(messages'[i].content.json).ok]_vars

\* An answer without explanation was rejected and the step is at its second
\* attempt, the Conversation still holding the task alone.
C30_Witness ==
    /\ pc = "enter"
    /\ retryCount = 1
    /\ output = [success |-> FALSE, operation |-> Null]
    /\ ~AIResponseSchema(output).ok
    /\ messages = <<UserText(tasks[1])>>

\* C31: a task that has begun always comes back to the prompt, whether a
\* Decision completed it or the iteration cap ended it, with the list of tasks
\* as it was; and the session closes only from the prompt, on an exit word,
\* with the goodbye printed.
C31_TaskReturnsToPrompt ==
    /\ (pc \notin {"prompt", "closed"}) ~> (pc = "prompt")
    /\ [][/\ pc = "done" => (pc' = "prompt" /\ UNCHANGED tasks)
          /\ (pc' = "closed" /\ pc # "closed") => (pc = "prompt" /\ "goodbye" \in console')]_vars

\* A second task is at its model call after the first one ended at the
\* iteration cap.
C31_Witness ==
    /\ Len(tasks) = 2
    /\ pc = "model"
    /\ "maxIterations" \in console

\* The run in progress has reached its end: a Decision completed it, or its
\* last iteration is over.
RunEnded == EverCompleted \/ iterations = maxIterations

\* C32: the terminal hands a task to spawnAgent, and reads or answers a line,
\* only at its prompt; when it starts a task that is not the first, the run
\* before it has returned at its end; and while a run is in progress the list
\* of tasks and what the terminal printed for its own commands stay as they are.
C32_OneTaskAtATime ==
    [][/\ tasks' # tasks =>
            /\ pc = "prompt" /\ pc' = "loop"
            /\ Len(tasks') = Len(tasks) + 1
            /\ SubSeq(tasks', 1, Len(tasks)) = tasks
            /\ tasks # <<>> => (signal = "resolved" /\ RunEnded)
       /\ pc' = "prompt" => (pc = "prompt" \/ (pc = "done" /\ RunEnded))
       /\ pc \notin {"prompt", "closed"} =>
            /\ tasks' = tasks
            /\ console' \cap {"help", "header", "goodbye", "task"} =
                   console \cap {"help", "header", "goodbye", "task"}]_vars

\* The second task of a session has just been handed to spawnAgent, the first
\* one having completed.
C32_Witness ==
    /\ Len(tasks) = 2
    /\ pc = "loop"
    /\ iterations = 0
    /\ messages = <<UserText(tasks[2])>>
    /\ signal = NoSignal

\* `error?` of an OperationResult is there exactly when success is false.
ErrorIffFailure(r) == Has(r, "error") <=> ~r.success

\* C33: the Result of every step that has one, whether an executor function
\* produced it or the step engine made it up, and every Result in the
\* Conversation, hold an error exactly when their success is false.
C33_ErrorIffFailure ==
    /\ result # NoResult => ErrorIffFailure(result)
    /\ before.result # NoResult => ErrorIffFailure(before.result)
    /\ \A i \in 2..Len(messages) :
            messages[i].role = "user" => ErrorIffFailure(messages[i].content.json)

\* A step whose operation succeeded, with no error in its Result, was followed
\* by a step whose Decision lacked its payload: the refusal holds an error.
C33_Witness ==
    /\ before.result # NoResult /\ before.result.success /\ ~Has(before.result, "error")
    /\ before.calls # <<>>
    /\ result # NoResult /\ ~result.success /\ Has(result, "error")
    /\ calls = <<>>
    /\ StepDecision.operation = "WRITE_FILE"

\* C34: when every model call, operation and wait of a run comes back, the run
\* ends: spawnAgent returns, after a Decision that completed the task or after
\* its last iteration, whatever the model answered and however often it failed.
C34_RunTerminates == <>(pc = "done" /\ RunEnded)

\* A run ended at the iteration cap after a step that ran out of retries, with
\* Decisions taken on the way.
C34_Witness ==
    /\ pc = "done"
    /\ iterations = maxIterations
    /\ ~EverCompleted
    /\ ret = Returned(FALSE, MaxRetriesError)
    /\ stepCount > 0

\* C35: as long as a run has taken no Decision, and so at its first model
\* invocation, its Conversation is one user message holding the text of the
\* task it was started for, whatever ran before it in the session.
C35_FreshConversation ==
    (tasks # <<>> /\ stepCount = 0 /\ pc \in {"loop", "enter", "model", "backoff"}) =>
        messages = <<[role |-> "user", content |-> [text |-> tasks[Len(tasks)]]]>>

\* The second task of a session, another text than the first, is at its first
\* model invocation.
C35_Witness ==
    /\ Len(tasks) = 2
    /\ tasks[1] # tasks[2]
    /\ pc = "model"
    /\ iterations = 1 /\ retryCount = 0 /\ stepCount = 0
    /\ messages = <<UserText(tasks[2])>>

\* C36 (as claimed): the Conversation starts with a user message, no two
\* assistant messages are next to each other, and while the model is being
\* invoked the last message is a user message.
C36_RolesAlternate ==
    /\ messages # <<>> => messages[1].role = "user"
    /\ \A i \in 1..(Len(messages) - 1) :
            ~(messages[i].role = "assistant" /\ messages[i + 1].role = "assistant")
    /\ (pc = "model" /\ messages # <<>>) => messages[Len(messages)].role = "user"

\* The most generateObject calls a run can have made when its present step has
\* made `attempts` of them and every step before it made all it could.
InvocationsAtMost == (maxRetries + 1) * (iterations - 1) + attempts

\* C37: every iteration starts its step with the retry counter and the
\* attempts at 0; each model invocation of a step is made under a retry count
\* of its own between 0 and 3, so a step makes at most 4 of them, and a run of
\* at most 50 iterations at most 200.
C37_InvocationsBounded ==
    /\ [](/\ attempts <= retryCount + 1
          /\ attempts <= maxRetries + 1 /\ maxRetries + 1 = 4
          /\ iterations <= maxIterations
          /\ iterations >= 1 => InvocationsAtMost <= 200)
    /\ [][/\ iterations' # iterations => (retryCount' = 0 /\ attempts' = 0)
          /\ attempts' > attempts => (attempts' = attempts + 1 /\ retryCount = attempts
                                        /\ retryCount <= maxRetries /\ pc' = "model")]_vars

\* The last iteration of a run is at its fourth model invocation.
C37_Witness ==
    /\ iterations = maxIterations
    /\ attempts = 4
    /\ retryCount = 3
    /\ pc = "model"

\* C38: the dispatch of a Decision that sets completed = true and names an
\* operation calls the function of the operation (unless the payload is
\* missing), appends the Result, prints the completion summary and ends the
\* run with isCompleted = true, whether the Result is a success or a failure.
C38_CompletionFlagTrusted ==
    [][(pc = "dispatch" /\ pc' # "dispatch" /\ LastDecision.success /\ LastDecision.operation # Null) =>
            /\ Len(calls') = (IF PayloadRefused(LastDecision) THEN 0 ELSE 1)
            /\ result' # NoResult
            /\ messages' = Append(messages, [role |-> "user", content |-> [json |-> result']])
            /\ "completionSummary" \in console'
            /\ ret' = Returned(TRUE, Undefined)
            /\ pc' = "done"]_vars

\* A run ended as completed on a Decision whose readFile answered
\* 'File not found'.
C38_Witness ==
    /\ pc = "done"
    /\ StepDecision.success
    /\ StepDecision.operation = "READ_FILE"
    /\ Len(calls) = 1
    /\ result # NoResult /\ ~result.success
    /\ messages[Len(messages)] = UserMessage(result)
    /\ ret.isCompleted

\* C39 (as claimed): when a run has ended on an answer of the model with
\* completed = true, no operation, no command and no path, the step made up no
\* Result and the Decision is the last message of the Conversation.
C39_BareCompletionAddsNothing ==
    (pc = "done" /\ output # NoOutput /\ AIResponseSchema(output).ok
        /\ output.success /\ output.operation = Null
        /\ ~Has(output, "command") /\ ~Has(output, "path")) =>
            /\ result = NoResult
            /\ messages[Len(messages)].role = "assistant"

\* A Decision whose payload is there and is the empty string.
EmptyPayload(d) ==
    \/ d.operation = "WRITE_FILE" /\ Has(d, "fileContent") /\ d.fileContent = ""
    \/ d.operation = "EXECUTE_COMMAND" /\ Has(d, "command") /\ d.command = ""

=============================================================================
